---- MODULE Spec2Model ----
(***************************************************************************)
(* vshark: a live network-traffic viewer.                                  *)
(*                                                                         *)
(* src/src/network.rs  run_sniffer: the background worker that reads the   *)
(*                     capture feed, scans its buffer for IPv4 frames and  *)
(*                     sends PacketUpdate records over an mpsc channel.    *)
(* src/src/main.rs     main: the foreground loop that drains the channel,  *)
(*                     keeps the conversation map, the history buffer, the *)
(*                     selection and the search state, draws, and handles  *)
(*                     one key event per iteration.                        *)
(*                                                                         *)
(* Text is modelled as a sequence of character codes, bytes as 0..255.     *)
(* Indices named i, p, pos are 0-based as in the source; TLA+ sequences    *)
(* are 1-based, so buffer[i] of the source is buf[i + 1] here.             *)
(***************************************************************************)
EXTENDS Integers, Sequences, FiniteSets, TLC

VARIABLES
    scn,              \* which capture feed this run reads (an input, fixed by Init)
    pos,              \* bytes of the feed the worker has read so far
    wpc,              \* worker position: "read" | "scan" | "exited"
    buffer,           \* network.rs:24  buffer: Vec<u8>
    i,                \* network.rs:33  the scan cursor
    queue,            \* the mpsc channel: records sent and not yet received
    sent,             \* history: every record the worker sent, in order
    conversations,    \* main.rs:33  HashMap<String, u64>
    chat_history,     \* main.rs:34  Vec<PacketUpdate>
    list_state,       \* main.rs:35  ListState.selected: None or a position
    selected_stream,  \* main.rs:36  Option<String>
    searching,        \* main.rs:37
    search_query,     \* main.rs:38
    formatted_hex_view, \* main.rs:39
    mpc,              \* foreground position: "drain" | "draw" | "input" | "done"
    exitBy,           \* why the foreground loop was left: "none" | "quit" | "error"
    killed,           \* child_process.kill() was issued
    received,         \* history: every record the foreground loop received, in order
    clearedAt,        \* history: Len(received) at the most recent clear
    renderClamps      \* the ratatui build: List's render clamps a selection beyond the list

vars == <<scn, pos, wpc, buffer, i, queue, sent, conversations, chat_history,
          list_state, selected_stream, searching, search_query,
          formatted_hex_view, mpc, exitBy, killed, received, clearedAt,
          renderClamps>>

workerVars == <<pos, wpc, buffer, i, sent>>
uiVars == <<conversations, chat_history, list_state, selected_stream, searching,
            search_query, formatted_hex_view, received, clearedAt>>

(***************************************************************************)
(* Program constants                                                       *)
(***************************************************************************)
TempBufLen == 2048
BufferCeiling == 8000
DrainLen == 4000
MinHeaderLen == 20
HistoryCap == 50

(***************************************************************************)
(* Sequence helpers                                                        *)
(***************************************************************************)
Min(a, b) == IF a < b THEN a ELSE b

Rep(n, b) == [k \in 1..n |-> b]

Take(s, n) == SubSeq(s, 1, Min(n, Len(s)))

Drop(s, n) == SubSeq(s, n + 1, Len(s))

\* str::contains: t occurs in s as a contiguous run
Contains(s, t) ==
    \E k \in 0..(Len(s) - Len(t)) : SubSeq(s, k + 1, k + Len(t)) = t

\* str::find: the 0-based position of the first occurrence of t in s, -1 for None
Find(s, t) ==
    IF Contains(s, t)
    THEN CHOOSE k \in 0..(Len(s) - Len(t)) :
            /\ SubSeq(s, k + 1, k + Len(t)) = t
            /\ \A j \in 0..(k - 1) : SubSeq(s, j + 1, j + Len(t)) # t
    ELSE -1

(***************************************************************************)
(* Bounds of the model                                                     *)
(***************************************************************************)
\* records the channel may hold at once in the worker scenarios
MaxQueue == 6
\* records the channel may hold at once while the foreground loop fills the history
MaxLag == 1
\* frames of the feed that fills the history buffer
BurstFrames == 11
\* bytes of the long feed that drives the buffer to its ceiling
LongLen == 9000
\* characters the search query may hold
MaxQuery == 1

(***************************************************************************)
(* The capture feed: the bytes dumpcap writes to its stdout                *)
(***************************************************************************)
Noise(n) == Rep(n, 0)

\* An IPv4 header (version 4, IHL 5) declaring `total` bytes, followed by a
\* transport header with destination port `dport`; the first n bytes of it.
Frame(src, dst, total, dport, n) ==
    Take(<<69, 0, total \div 256, total % 256, 0, 0, 0, 0, 64, 6, 0, 0>>
            \o src \o dst
            \o <<4, 0, dport \div 256, dport % 256>> \o Noise(n),
         n)

AddrA == <<1, 1, 1, 1>>
AddrB == <<2, 2, 2, 2>>
AddrB2 == <<2, 2, 2, 22>>
AddrC == <<3, 3, 3, 3>>
AddrD == <<4, 4, 4, 4>>

\* two well-formed frames between noise bytes
CleanStream ==
    Noise(2) \o Frame(AddrA, AddrB, 24, 443, 24) \o Noise(3)
             \o Frame(AddrC, AddrD, 24, 53, 24) \o Noise(2)

\* the (source, destination) pairs of the frames of CleanStream, in stream order
CleanFrames == << <<AddrA, AddrB>>, <<AddrC, AddrD>> >>

\* three flows; the flow that arrives first sorts last, the one that arrives
\* last sorts first, and the text of its key is contained in the key of the
\* second
UiStream ==
    Frame(AddrC, AddrD, 24, 443, 24) \o Frame(AddrA, AddrB2, 24, 0, 24)
        \o Frame(AddrA, AddrB, 24, 53, 24) \o Noise(1)

AddrZero == <<0, 0, 0, 0>>
AddrBcast == <<255, 255, 255, 255>>

\* four frames with an unspecified or broadcast address, then a plain one
FilterStream ==
    Frame(AddrZero, AddrB, 24, 0, 24) \o Frame(AddrA, AddrZero, 24, 0, 24)
        \o Frame(AddrBcast, AddrB, 24, 0, 24) \o Frame(AddrA, AddrBcast, 24, 0, 24)
        \o Frame(AddrC, AddrD, 24, 0, 24) \o Noise(1)

\* frames to the ports 443, 53, 22, 80 and 8080, and one without a transport header
PortsStream ==
    Frame(AddrA, AddrB, 24, 443, 24) \o Frame(AddrA, AddrB2, 24, 53, 24)
        \o Frame(AddrC, AddrD, 24, 22, 24) \o Frame(AddrA, AddrD, 24, 80, 24)
        \o Frame(AddrC, AddrB, 24, 8080, 24) \o Frame(AddrC, AddrB2, 20, 0, 20)
        \o Noise(1)

\* a 60-byte frame whose payload holds a whole 24-byte frame of another flow
\* (as an ICMP error or an IP-in-IP tunnel does), then noise
NestedStream ==
    Frame(AddrA, AddrB, 60, 0, 24) \o Frame(AddrC, AddrD, 24, 53, 24)
        \o Noise(12) \o Noise(2)

\* a header that declares a total length of 0, then noise
ZeroLenStream == Frame(AddrA, AddrB, 0, 0, 24) \o Noise(2)

\* BurstFrames header-only frames of three flows in rotation
BurstFrame(k) ==
    CASE k % 3 = 0 -> Frame(AddrA, AddrB, 20, 0, 20)
      [] k % 3 = 1 -> Frame(AddrC, AddrD, 20, 0, 20)
      [] OTHER     -> Frame(AddrA, AddrB2, 20, 0, 20)

RECURSIVE BurstUpTo(_)
BurstUpTo(k) == IF k = 0 THEN <<>> ELSE BurstUpTo(k - 1) \o BurstFrame(k)

BurstStream == BurstUpTo(BurstFrames)

\* LongLen bytes: one frame, then noise
LongStream == Take(Frame(AddrA, AddrB, 24, 22, 24) \o Noise(LongLen), LongLen)

WorkerScenarios == {"clean", "filter", "ports", "nested", "zero"}

Stream(s) ==
    CASE s = "clean" -> CleanStream
      [] s = "ui"    -> UiStream
      [] s = "burst" -> BurstStream
      [] s = "long"  -> LongStream
      [] s = "filter" -> FilterStream
      [] s = "ports"  -> PortsStream
      [] s = "nested" -> NestedStream
      [] s = "zero"   -> ZeroLenStream

\* the sizes a read of the feed returns in scenario s (cut to the bytes left):
\* a read may return any size up to TempBufLen, and these are the ones tried
ReadSizes(s) ==
    CASE s = "clean" -> {1, 30, TempBufLen}
      [] s = "ui"    -> {48, TempBufLen}
      [] s = "burst" -> {MinHeaderLen}
      [] s = "long"  -> {1, 1000, TempBufLen}
      [] s = "filter" -> {30, TempBufLen}
      [] s = "ports"  -> {100, TempBufLen}
      [] s = "nested" -> {50, TempBufLen}
      [] s = "zero"   -> {1, TempBufLen}

QueueCap(s) == IF s = "burst" THEN MaxLag ELSE MaxQueue

(***************************************************************************)
(* Text                                                                    *)
(***************************************************************************)
RECURSIVE Dec(_)
\* the decimal digits of n, as {} formats an integer
Dec(n) == IF n < 10 THEN <<48 + n>> ELSE Dec(n \div 10) \o <<48 + (n % 10)>>

\* Display of Ipv4Addr: four decimal octets separated by '.'
FmtAddr(a) == Dec(a[1]) \o <<46>> \o Dec(a[2]) \o <<46>> \o Dec(a[3]) \o <<46>> \o Dec(a[4])

Arrow == <<32, 10132, 32>>
TagOpen == <<32, 91>>
TagHttps == <<32, 91, 72, 84, 84, 80, 83, 93>>
TagDns == <<32, 91, 68, 78, 83, 93>>
TagSsh == <<32, 91, 83, 83, 72, 93>>

(***************************************************************************)
(* The worker: network.rs run_sniffer                                      *)
(***************************************************************************)
\* buffer.len().saturating_sub(20)
ScanBound(len) == IF len >= MinHeaderLen THEN len - MinHeaderLen ELSE 0

\* etherparse Ipv4Header::from_slice(&buffer[i..]) returns Ok: at least 20
\* bytes, version 4, IHL >= 5, and the IHL * 4 header bytes are present
Ipv4HeaderOk(buf, c) ==
    LET n == Len(buf) - c
        b == buf[c + 1]
    IN  /\ n >= MinHeaderLen
        /\ b \div 16 = 4
        /\ b % 16 >= 5
        /\ n >= (b % 16) * 4

HeaderSource(buf, c) == SubSeq(buf, c + 13, c + 16)
HeaderDestination(buf, c) == SubSeq(buf, c + 17, c + 20)
HeaderTotalLen(buf, c) == buf[c + 3] * 256 + buf[c + 4]

IsUnspecified(a) == a = <<0, 0, 0, 0>>
IsBroadcast(a) == a = <<255, 255, 255, 255>>

\* network.rs:43
NoiseFilter(src, dst) == IsUnspecified(src) \/ IsUnspecified(dst) \/ IsBroadcast(src)

\* mutant of PortTag: the port is read from bytes 20..21, the source port
PortTagSourcePort(raw_packet) ==
    IF Len(raw_packet) >= 24
    THEN LET d_port == raw_packet[21] * 256 + raw_packet[22]
         IN  CASE d_port = 443 -> TagHttps
               [] d_port = 53  -> TagDns
               [] d_port = 22  -> TagSsh
               [] OTHER        -> <<>>
    ELSE <<>>

\* network.rs:53-62
PortTag(raw_packet) ==
    IF Len(raw_packet) >= 24
    THEN LET d_port == raw_packet[23] * 256 + raw_packet[24]
         IN  CASE d_port = 443 -> TagHttps
               [] d_port = 53  -> TagDns
               [] d_port = 22  -> TagSsh
               [] OTHER        -> <<>>
    ELSE <<>>

\* network.rs:64-67
MakeUpdate(src, dst, raw_packet) ==
    [summary  |-> FmtAddr(src) \o Arrow \o FmtAddr(dst) \o PortTag(raw_packet),
     raw_data |-> raw_packet]

\* network.rs:68: the cursor after a frame was sent
AfterSend(c, total_len) == c + total_len

\* One iteration of the while loop at cursor c: the next cursor and the
\* records sent (none or one).
ScanStep(buf, c) ==
    IF buf[c + 1] = 69 /\ Ipv4HeaderOk(buf, c)
    THEN LET src == HeaderSource(buf, c)
             dst == HeaderDestination(buf, c)
             total_len == HeaderTotalLen(buf, c)
         IN  IF NoiseFilter(src, dst)
             THEN [i |-> c + 1, out |-> <<>>]
             ELSE IF Len(buf) >= c + total_len
                  THEN [i   |-> AfterSend(c, total_len),
                        out |-> <<MakeUpdate(src, dst, SubSeq(buf, c + 1, c + total_len))>>]
                  ELSE [i |-> c + 1, out |-> <<>>]
    ELSE [i |-> c + 1, out |-> <<>>]

\* mutant of Extend: the eviction test runs before the bytes are appended
ExtendEvictFirst(buf, chunk) ==
    (IF Len(buf) > BufferCeiling THEN Drop(buf, DrainLen) ELSE buf) \o chunk

\* network.rs:30-31: append the bytes read, then evict
Extend(buf, chunk) ==
    LET b == buf \o chunk
    IN  IF Len(b) > BufferCeiling THEN Drop(b, DrainLen) ELSE b

\* network.rs:27-33: a read returned Ok(n), n > 0
Read ==
    /\ wpc = "read"
    /\ pos < Len(Stream(scn))
    /\ \E n \in ReadSizes(scn) :
         LET got == Min(Min(n, TempBufLen), Len(Stream(scn)) - pos)
         IN  /\ buffer' = Extend(buffer, SubSeq(Stream(scn), pos + 1, pos + got))
             /\ pos' = pos + got
    /\ i' = 0
    /\ wpc' = "scan"
    /\ UNCHANGED <<scn, renderClamps, queue, sent, mpc, exitBy, killed>>
    /\ UNCHANGED uiVars

\* network.rs:28: a read returned Ok(0): the feed is at its end, or the
\* capture process was killed and its pipe closed
ReadEnd ==
    /\ wpc = "read"
    /\ (pos = Len(Stream(scn)) \/ killed)
    /\ wpc' = "exited"
    /\ UNCHANGED <<scn, renderClamps, pos, buffer, i, queue, sent, mpc, exitBy, killed>>
    /\ UNCHANGED uiVars

\* network.rs:76: a read returned Err
ReadError ==
    /\ wpc = "read"
    /\ wpc' = "exited"
    /\ UNCHANGED <<scn, renderClamps, pos, buffer, i, queue, sent, mpc, exitBy, killed>>
    /\ UNCHANGED uiVars

\* network.rs:34-36, 73: the iterations that find buffer[i] # 0x45 only move
\* the cursor by one; the cursor they leave behind is the first one at or after
\* c that holds 0x45 or ends the loop
NextCandidate(buf, c) ==
    LET bound == ScanBound(Len(buf))
        stop(j) == j >= bound \/ buf[j + 1] = 69
    IN  IF c >= bound THEN c
        ELSE CHOOSE j \in c..bound : stop(j) /\ \A k \in c..(j - 1) : ~stop(k)

\* network.rs:34-74: the while loop, up to and including its next iteration
\* that finds a candidate byte, or up to its end. tx.send fails, and is ignored,
\* once the receiver is gone.
Scan ==
    /\ wpc = "scan"
    /\ LET c == NextCandidate(buffer, i)
       IN  IF c < ScanBound(Len(buffer))
           THEN LET r == ScanStep(buffer, c)
                IN  /\ r.out # <<>> => Len(queue) < QueueCap(scn)
                    /\ i' = r.i
                    /\ sent' = sent \o r.out
                    /\ queue' = IF mpc = "done" THEN queue ELSE queue \o r.out
                    /\ wpc' = wpc
           ELSE /\ wpc' = "read"
                /\ i' = c
                /\ UNCHANGED <<sent, queue>>
    /\ UNCHANGED <<scn, renderClamps, pos, buffer, mpc, exitBy, killed>>
    /\ UNCHANGED uiVars

NextWorker == Read \/ ReadEnd \/ ReadError \/ Scan

RECURSIVE ScanFrom(_, _)
\* network.rs:33-74: the records one run of the while loop sends from cursor c
\* (cut where an iteration would not advance the cursor)
ScanFrom(buf, c) ==
    IF c < ScanBound(Len(buf))
    THEN LET r == ScanStep(buf, c)
         IN  r.out \o (IF r.i > c THEN ScanFrom(buf, r.i) ELSE <<>>)
    ELSE <<>>

(***************************************************************************)
(* The foreground loop: main.rs main                                       *)
(***************************************************************************)
\* Option::None of list_state.selected()
NoneIdx == -1
\* Option::None of selected_stream (no flow key is the empty text)
NoStream == <<>>

SelectAStream == <<83, 101, 108, 101, 99, 116, 32, 97, 32, 115, 116, 114, 101, 97, 109, 46, 46, 46>>

\* the characters a key event may carry into the search query: '1', '3', 'H'
QueryChars == {49, 51, 72}

\* str::to_lowercase
Lower(s) == [k \in 1..Len(s) |-> IF s[k] \in 65..90 THEN s[k] + 32 ELSE s[k]]

\* the order of String: a sorts before b
LexLess(a, b) ==
    \E k \in 1..Len(b) :
        /\ k <= Len(a) + 1
        /\ \A j \in 1..(k - 1) : a[j] = b[j]
        /\ (k = Len(a) + 1 \/ a[k] < b[k])

RECURSIVE SortedSeq(_)
\* Vec::sort of a set of distinct texts
SortedSeq(S) ==
    IF S = {} THEN <<>>
    ELSE LET m == CHOOSE x \in S : \A y \in S \ {x} : LexLess(x, y)
         IN  <<m>> \o SortedSeq(S \ {m})

\* main.rs:96-100 and 179-183: the filtered, sorted flow list
Streams(conv, query) ==
    SortedSeq({s \in DOMAIN conv : Contains(Lower(s), Lower(query))})

\* Iterator::position: the 0-based place of x in seq, NoneIdx when absent
Position(seq, x) ==
    IF \E k \in 1..Len(seq) : seq[k] = x
    THEN (CHOOSE k \in 1..Len(seq) : seq[k] = x /\ \A j \in 1..(k - 1) : seq[j] # x) - 1
    ELSE NoneIdx

\* main.rs:46-50
IpPair(summary) ==
    LET p == Find(summary, TagOpen)
    IN  IF p >= 0 THEN Take(summary, p) ELSE summary

\* mutant of Record: a key already present is inserted again with count 1
RecordInsertOnly(conv, key) ==
    [k \in DOMAIN conv \cup {key} |-> IF k = key THEN 1 ELSE conv[k]]

\* mutant of Record: or_insert(1), then += 1: a new key starts at 2
RecordFromOne(conv, key) ==
    [k \in DOMAIN conv \cup {key} |->
        (IF k \in DOMAIN conv THEN conv[k] ELSE 1) + (IF k = key THEN 1 ELSE 0)]

\* main.rs:52-53: entry(ip_pair).or_insert(0), then += 1
Record(conv, key) ==
    [k \in DOMAIN conv \cup {key} |->
        (IF k \in DOMAIN conv THEN conv[k] ELSE 0) + (IF k = key THEN 1 ELSE 0)]

\* mutant of Push: the oldest record is evicted when the cap is reached, not exceeded
PushEvictAtCap(history, update) ==
    LET h == Append(history, update)
    IN  IF Len(h) >= HistoryCap THEN Tail(h) ELSE h

\* main.rs:55-58
Push(history, update) ==
    LET h == Append(history, update)
    IN  IF Len(h) > HistoryCap THEN Tail(h) ELSE h

HexDigit(n) == IF n < 10 THEN 48 + n ELSE 87 + n

\* main.rs:248-267: one row of format_hex
HexRow(chunk) ==
    [k \in 1..(3 * Len(chunk)) |->
        LET b == chunk[(k + 2) \div 3]
        IN  CASE (k - 1) % 3 = 0 -> HexDigit(b \div 16)
              [] (k - 1) % 3 = 1 -> HexDigit(b % 16)
              [] OTHER           -> 32]
    \o (IF Len(chunk) < 16 THEN Rep(3 * (16 - Len(chunk)), 32) ELSE <<>>)
    \o <<32, 124, 32>>
    \o [k \in 1..Len(chunk) |->
        IF chunk[k] \in 33..126 \/ chunk[k] = 32 THEN chunk[k] ELSE 46]
    \o <<10>>

RECURSIVE format_hex(_)
\* main.rs:245-270
format_hex(data) ==
    IF data = <<>> THEN <<>>
    ELSE HexRow(Take(data, 16)) \o format_hex(Drop(data, 16))

\* the history records whose summary contains the text of target
Matching(history, target) ==
    SelectSeq(history, LAMBDA p : Contains(p.summary, target))

\* main.rs:119-129: the records the feed pane shows
FilteredFeed(history, target, query) ==
    IF target # NoStream
    THEN SelectSeq(history, LAMBDA p : Contains(p.summary, target))
    ELSE IF query # <<>>
         THEN SelectSeq(history, LAMBDA p : Contains(Lower(p.summary), Lower(query)))
         ELSE history

\* main.rs:164: the text the inspector pane shows
InspectorText(view) == view

\* main.rs:60-65
HexViewAfterDrain(view, history, target) ==
    IF target # NoStream /\ Matching(history, target) # <<>>
    THEN LET m == Matching(history, target) IN format_hex(m[Len(m)].raw_data)
    ELSE view

\* mutant of Resolve: the position is not looked up again from the key
ResolveKeepsPosition(selected, target, streams) == selected

\* main.rs:102-106
Resolve(selected, target, streams) ==
    IF target # NoStream /\ Position(streams, target) # NoneIdx
    THEN Position(streams, target)
    ELSE selected

\* main.rs:117: what rendering the List does to ListState.selected, per build
RenderSelected(selected, n) ==
    IF renderClamps
    THEN IF n = 0 THEN NoneIdx
         ELSE IF selected # NoneIdx /\ selected >= n THEN n - 1 ELSE selected
    ELSE selected

\* mutant of DownIndex: the last row does not wrap to the first
DownIndexNoWrap(selected, n) ==
    IF selected = NoneIdx THEN 0
    ELSE IF selected >= n - 1 THEN n - 1 ELSE selected + 1

\* main.rs:214-217
DownIndex(selected, n) ==
    IF selected = NoneIdx THEN 0
    ELSE IF selected >= n - 1 THEN 0 ELSE selected + 1

\* main.rs:224-227
UpIndex(selected, n) ==
    IF selected = NoneIdx THEN 0
    ELSE IF selected = 0 THEN n - 1 ELSE selected - 1

\* main.rs:45-58: try_recv returned a record
Recv ==
    /\ mpc = "drain"
    /\ queue # <<>>
    /\ LET update == Head(queue)
       IN  /\ conversations' = Record(conversations, IpPair(update.summary))
           /\ chat_history' = Push(chat_history, update)
           /\ received' = Append(received, update)
    /\ queue' = Tail(queue)
    /\ UNCHANGED <<scn, renderClamps, list_state, selected_stream, searching,
                   search_query, formatted_hex_view, mpc, exitBy, killed, clearedAt>>
    /\ UNCHANGED workerVars

\* mutant of DrainEnd: a disconnected channel ends the foreground loop
DrainEndFatalDisconnect ==
    /\ mpc = "drain"
    /\ queue = <<>>
    /\ formatted_hex_view' =
          HexViewAfterDrain(formatted_hex_view, chat_history, selected_stream)
    /\ mpc' = IF wpc = "exited" THEN "done" ELSE "draw"
    /\ exitBy' = IF wpc = "exited" THEN "error" ELSE exitBy
    /\ UNCHANGED <<scn, renderClamps, queue, conversations, chat_history, list_state,
                   selected_stream, searching, search_query, killed,
                   received, clearedAt>>
    /\ UNCHANGED workerVars

\* main.rs:45, 60-65: try_recv returned Err (empty or disconnected)
DrainEnd ==
    /\ mpc = "drain"
    /\ queue = <<>>
    /\ formatted_hex_view' =
          HexViewAfterDrain(formatted_hex_view, chat_history, selected_stream)
    /\ mpc' = "draw"
    /\ UNCHANGED <<scn, renderClamps, queue, conversations, chat_history, list_state,
                   selected_stream, searching, search_query, exitBy, killed,
                   received, clearedAt>>
    /\ UNCHANGED workerVars

\* main.rs:68-174: terminal.draw
Draw ==
    /\ mpc = "draw"
    /\ LET streams == Streams(conversations, search_query)
       IN  list_state' =
              RenderSelected(Resolve(list_state, selected_stream, streams), Len(streams))
    /\ mpc' = "input"
    /\ UNCHANGED <<scn, renderClamps, queue, conversations, chat_history,
                   selected_stream, searching, search_query, formatted_hex_view,
                   exitBy, killed, received, clearedAt>>
    /\ UNCHANGED workerVars

\* main.rs:174, 177, 178: terminal.draw, event::poll or event::read returned Err
IoError ==
    /\ mpc \in {"draw", "input"}
    /\ mpc' = "done"
    /\ exitBy' = "error"
    /\ UNCHANGED <<scn, renderClamps, queue, killed>>
    /\ UNCHANGED uiVars
    /\ UNCHANGED workerVars

\* main.rs:177-178: the poll timed out, or the event is no key event
NoEvent ==
    /\ mpc = "input"
    /\ mpc' = "drain"
    /\ UNCHANGED <<scn, renderClamps, queue, exitBy, killed>>
    /\ UNCHANGED uiVars
    /\ UNCHANGED workerVars

\* main.rs:187
KeyEnter ==
    /\ mpc = "input"
    /\ searching
    /\ searching' = FALSE
    /\ mpc' = "drain"
    /\ UNCHANGED <<scn, renderClamps, queue, conversations, chat_history, list_state,
                   selected_stream, search_query, formatted_hex_view, exitBy, killed,
                   received, clearedAt>>
    /\ UNCHANGED workerVars

\* mutant of KeyEsc: cancel leaves the search mode and keeps query and selection
KeyEscModeOnly ==
    /\ mpc = "input"
    /\ searching
    /\ searching' = FALSE
    /\ mpc' = "drain"
    /\ UNCHANGED <<scn, renderClamps, queue, conversations, chat_history, list_state,
                   selected_stream, search_query, formatted_hex_view, exitBy, killed,
                   received, clearedAt>>
    /\ UNCHANGED workerVars

\* main.rs:188-192
KeyEsc ==
    /\ mpc = "input"
    /\ searching
    /\ searching' = FALSE
    /\ search_query' = <<>>
    /\ selected_stream' = NoStream
    /\ mpc' = "drain"
    /\ UNCHANGED <<scn, renderClamps, queue, conversations, chat_history, list_state,
                   formatted_hex_view, exitBy, killed, received, clearedAt>>
    /\ UNCHANGED workerVars

\* main.rs:193
KeyBackspace ==
    /\ mpc = "input"
    /\ searching
    /\ search_query' = Take(search_query, Len(search_query) - 1)
    /\ mpc' = "drain"
    /\ UNCHANGED <<scn, renderClamps, queue, conversations, chat_history, list_state,
                   selected_stream, searching, formatted_hex_view, exitBy, killed,
                   received, clearedAt>>
    /\ UNCHANGED workerVars

\* main.rs:194
KeyChar ==
    /\ mpc = "input"
    /\ searching
    /\ Len(search_query) < MaxQuery
    /\ \E c \in QueryChars : search_query' = Append(search_query, c)
    /\ mpc' = "drain"
    /\ UNCHANGED <<scn, renderClamps, queue, conversations, chat_history, list_state,
                   selected_stream, searching, formatted_hex_view, exitBy, killed,
                   received, clearedAt>>
    /\ UNCHANGED workerVars

\* mutant of KeyQuit: the loop is left without child_process.kill()
KeyQuitNoKill ==
    /\ mpc = "input"
    /\ ~searching
    /\ mpc' = "done"
    /\ exitBy' = "quit"
    /\ UNCHANGED <<scn, renderClamps, queue, killed>>
    /\ UNCHANGED uiVars
    /\ UNCHANGED workerVars

\* main.rs:199-202
KeyQuit ==
    /\ mpc = "input"
    /\ ~searching
    /\ killed' = TRUE
    /\ mpc' = "done"
    /\ exitBy' = "quit"
    /\ UNCHANGED <<scn, renderClamps, queue>>
    /\ UNCHANGED uiVars
    /\ UNCHANGED workerVars

\* main.rs:203-206
KeySlash ==
    /\ mpc = "input"
    /\ ~searching
    /\ searching' = TRUE
    /\ search_query' = <<>>
    /\ mpc' = "drain"
    /\ UNCHANGED <<scn, renderClamps, queue, conversations, chat_history, list_state,
                   selected_stream, formatted_hex_view, exitBy, killed, received,
                   clearedAt>>
    /\ UNCHANGED workerVars

\* mutant of KeyClear: the selection survives the clear
KeyClearKeepsSelection ==
    /\ mpc = "input"
    /\ ~searching
    /\ conversations' = <<>>
    /\ chat_history' = <<>>
    /\ clearedAt' = Len(received)
    /\ mpc' = "drain"
    /\ UNCHANGED <<scn, renderClamps, queue, list_state, selected_stream, searching,
                   search_query, formatted_hex_view, exitBy, killed, received>>
    /\ UNCHANGED workerVars

\* main.rs:207-211
KeyClear ==
    /\ mpc = "input"
    /\ ~searching
    /\ conversations' = <<>>
    /\ chat_history' = <<>>
    /\ selected_stream' = NoStream
    /\ clearedAt' = Len(received)
    /\ mpc' = "drain"
    /\ UNCHANGED <<scn, renderClamps, queue, list_state, searching, search_query,
                   formatted_hex_view, exitBy, killed, received>>
    /\ UNCHANGED workerVars

\* main.rs:212-231: Down and Up share their shape; idx is the position computed.
\* streams[idx] panics when idx is outside the list.
Navigate(idx) ==
    LET streams == Streams(conversations, search_query)
    IN  IF streams = <<>>
        THEN /\ mpc' = "drain"
             /\ UNCHANGED <<selected_stream, list_state, exitBy>>
        ELSE IF idx < Len(streams)
             THEN /\ selected_stream' = streams[idx + 1]
                  /\ list_state' = idx
                  /\ mpc' = "drain"
                  /\ UNCHANGED exitBy
             ELSE /\ mpc' = "done"
                  /\ exitBy' = "panic"
                  /\ UNCHANGED <<selected_stream, list_state>>

\* main.rs:212-221
KeyDown ==
    /\ mpc = "input"
    /\ ~searching
    /\ Navigate(DownIndex(list_state, Len(Streams(conversations, search_query))))
    /\ UNCHANGED <<scn, renderClamps, queue, conversations, chat_history, searching,
                   search_query, formatted_hex_view, killed, received, clearedAt>>
    /\ UNCHANGED workerVars

\* main.rs:222-231
KeyUp ==
    /\ mpc = "input"
    /\ ~searching
    /\ Navigate(UpIndex(list_state, Len(Streams(conversations, search_query))))
    /\ UNCHANGED <<scn, renderClamps, queue, conversations, chat_history, searching,
                   search_query, formatted_hex_view, killed, received, clearedAt>>
    /\ UNCHANGED workerVars

\* main.rs:195, 232: a key with no binding in the current mode
KeyIgnored ==
    /\ mpc = "input"
    /\ mpc' = "drain"
    /\ UNCHANGED <<scn, renderClamps, queue, exitBy, killed>>
    /\ UNCHANGED uiVars
    /\ UNCHANGED workerVars

NextDrain == Recv \/ DrainEnd \/ Draw \/ IoError \/ NoEvent \/ KeyIgnored

NextSearching == KeyEnter \/ KeyEsc \/ KeyBackspace \/ KeyChar

NextBrowsing == KeyQuit \/ KeySlash \/ KeyClear \/ KeyDown \/ KeyUp

(***************************************************************************)
(* Specifications                                                          *)
(***************************************************************************)
InitState ==
    /\ pos = 0
    /\ wpc = "read"
    /\ buffer = <<>>
    /\ i = 0
    /\ queue = <<>>
    /\ sent = <<>>
    /\ conversations = <<>>
    /\ chat_history = <<>>
    /\ list_state = NoneIdx
    /\ selected_stream = NoStream
    /\ searching = FALSE
    /\ search_query = <<>>
    /\ formatted_hex_view = SelectAStream
    /\ mpc = "drain"
    /\ exitBy = "none"
    /\ killed = FALSE
    /\ received = <<>>
    /\ clearedAt = 0

\* the whole program on a feed of three flows
Init == InitState /\ scn = "ui" /\ renderClamps \in BOOLEAN

Next == NextWorker \/ NextDrain \/ NextSearching \/ NextBrowsing

Spec == Init /\ [][Next]_vars

\* the whole program, with the worker thread scheduled whenever it can run
SpecFair == Init /\ [][Next]_vars /\ WF_vars(NextWorker)

\* the worker alone, on every way of splitting its feed into reads
InitWorker == InitState /\ scn \in WorkerScenarios /\ renderClamps = FALSE

SpecWorker == InitWorker /\ [][NextWorker]_vars

\* the worker alone, on a feed long enough to reach the buffer's ceiling
InitCeiling == InitState /\ scn = "long" /\ renderClamps = FALSE

SpecCeiling == InitCeiling /\ [][NextWorker]_vars

\* the worker and the foreground loop on a feed that overfills the history.
\* Of the key handlers only clear and quit are run here: the others leave
\* conversations, chat_history, received and clearedAt unchanged.
InitHistory == InitState /\ scn = "burst" /\ renderClamps = FALSE

NextHistory == NextWorker \/ NextDrain \/ KeyClear \/ KeyQuit

SpecHistory == InitHistory /\ [][NextHistory]_vars

(***************************************************************************)
(* Claims about the worker                                                 *)
(***************************************************************************)
\* the (source, destination) address pair a record carries
PairOf(update) == <<SubSeq(update.raw_data, 13, 16), SubSeq(update.raw_data, 17, 20)>>

\* the worker read its whole feed and left its loop
FeedDone == wpc = "exited" /\ pos = Len(Stream(scn))

\* C1: on a feed of N well-formed frames between noise bytes, whatever the
\* reads, the worker has sent exactly N records when the feed is exhausted,
\* one per frame, in stream order, each with its frame's addresses.
C1_ExactlyNRecords ==
    (scn = "clean" /\ FeedDone) =>
        [k \in 1..Len(sent) |-> PairOf(sent[k])] = CleanFrames

\* C2: chunking invariance: whatever the sizes of the reads, the records sent
\* over the whole feed are those sent when the feed arrives in one read.
C2_ChunkingInvariance ==
    FeedDone => sent = ScanFrom(Extend(<<>>, Stream(scn)), 0)

\* C3: after every read (append, then evict) the worker's buffer holds at
\* most BufferCeiling bytes.
C3_BufferCeiling == Len(buffer) <= BufferCeiling

\* a read pushed the buffer over the ceiling and the eviction cut it back
C3_Witness ==
    /\ wpc = "scan"
    /\ pos > BufferCeiling
    /\ Len(buffer) = pos - DrainLen

(***************************************************************************)
(* Claims about the foreground loop                                        *)
(***************************************************************************)
\* the records applied since the most recent clear, in arrival order
Applied == SubSeq(received, clearedAt + 1, Len(received))

\* the flow key of a record, from the addresses its bytes carry
FlowKey(update) ==
    FmtAddr(SubSeq(update.raw_data, 13, 16)) \o Arrow
        \o FmtAddr(SubSeq(update.raw_data, 17, 20))

KeyAB == FmtAddr(AddrA) \o Arrow \o FmtAddr(AddrB)
KeyAB2 == FmtAddr(AddrA) \o Arrow \o FmtAddr(AddrB2)
KeyCD == FmtAddr(AddrC) \o Arrow \o FmtAddr(AddrD)
FlowKeys == {KeyAB, KeyAB2, KeyCD}

\* the count the conversation map reports for a key (0 when absent)
CountOf(conv, key) == IF key \in DOMAIN conv THEN conv[key] ELSE 0

\* C4: the history buffer holds at most HistoryCap records, and they are the
\* most recent min(HistoryCap, n) of the n records applied since the last
\* clear, in arrival order.
C4_HistoryBounded ==
    /\ Len(chat_history) <= HistoryCap
    /\ chat_history =
          SubSeq(Applied, Len(Applied) - Min(HistoryCap, Len(Applied)) + 1, Len(Applied))

\* more than HistoryCap records were applied after a clear: the oldest is gone
C4_Witness ==
    /\ clearedAt > 0
    /\ Len(Applied) = HistoryCap + 1
    /\ Len(chat_history) = HistoryCap
    /\ chat_history[1] = Applied[2]
    /\ chat_history[1] # Applied[1]

\* the count of every flow key is the number of records of that flow applied
\* since the last clear, and the map holds no other key
CountsMatch ==
    /\ DOMAIN conversations \subseteq FlowKeys
    /\ \A key \in FlowKeys :
          CountOf(conversations, key) =
              Cardinality({k \in 1..Len(Applied) : FlowKey(Applied[k]) = key})
    /\ \A key \in DOMAIN conversations : conversations[key] >= 1

\* between two clears no key is removed and no count decreases
CountsGrow ==
    clearedAt' = clearedAt =>
        \A key \in DOMAIN conversations :
            key \in DOMAIN conversations' /\ conversations'[key] >= conversations[key]

\* C5: for every flow key the conversation count equals the number of records
\* of that flow applied since the most recent clear (0 = absent, the first
\* record inserts it with count 1), and between two clears no key is removed
\* and no count decreases.
C5_CountsPerFlow == []CountsMatch /\ [][CountsGrow]_vars

\* a flow was counted twice after a clear that had emptied the map
C5_Witness ==
    /\ clearedAt > 0
    /\ \E key \in DOMAIN conversations : conversations[key] = 2
    /\ \E key \in FlowKeys : key \notin DOMAIN conversations

\* C6: applying an incoming record leaves the selected flow key unchanged, and
\* the next render looks the position up again from the key: after it the
\* list position is the place of the selected key in the filtered sorted list.
C6_SelectionStable ==
    [][/\ Recv => selected_stream' = selected_stream
       /\ (Draw /\ selected_stream # NoStream
                /\ Position(Streams(conversations, search_query), selected_stream) # NoneIdx)
            => list_state' = Position(Streams(conversations, search_query), selected_stream)
      ]_vars

\* the selected flow was the first row when it was selected; records of two
\* flows that sort before it were applied since, and the render is due
C6_Witness ==
    /\ mpc = "draw"
    /\ selected_stream = KeyCD
    /\ list_state = 0
    /\ Position(Streams(conversations, search_query), selected_stream) = 2

\* C7: in Browsing mode, with the selected key at position p of the filtered
\* sorted list of length n >= 1, Down selects the key at (p + 1) mod n and Up
\* the key at (p - 1) mod n of that list.
C7_NavigationWraps ==
    [][LET streams == Streams(conversations, search_query)
           n == Len(streams)
           p == Position(streams, selected_stream)
       IN  (~searching /\ selected_stream # NoStream /\ p # NoneIdx) =>
              /\ KeyDown => selected_stream' = streams[((p + 1) % n) + 1]
              /\ KeyUp => selected_stream' = streams[((p + n - 1) % n) + 1]
      ]_vars

\* the selection moved from the last of three rows to the first: the first
\* key is selected while the inspector still shows the flow of the last row
C7_Witness ==
    /\ mpc = "drain"
    /\ DOMAIN conversations = FlowKeys
    /\ search_query = <<>>
    /\ selected_stream = KeyAB
    /\ list_state = 0
    /\ \E k \in 1..Len(chat_history) :
          /\ FlowKey(chat_history[k]) = KeyCD
          /\ formatted_hex_view = format_hex(chat_history[k].raw_data)

\* C8: the clear command empties the conversation map and the history buffer
\* and drops the selection in one step, and leaves the search mode and the
\* query text as they were.
C8_ClearResetsTogether ==
    [][KeyClear =>
          /\ conversations' = <<>>
          /\ chat_history' = <<>>
          /\ selected_stream' = NoStream
          /\ searching' = searching
          /\ search_query' = search_query
      ]_vars

\* a clear has just emptied a map that held flows, under a confirmed query and
\* after a flow had been selected and shown
C8_Witness ==
    /\ mpc = "drain"
    /\ clearedAt > 0
    /\ Len(received) = clearedAt
    /\ conversations = <<>>
    /\ chat_history = <<>>
    /\ selected_stream = NoStream
    /\ search_query # <<>>
    /\ formatted_hex_view # SelectAStream

\* C9: in Searching mode the cancel command leaves the mode, empties the query
\* and drops the selection, and leaves the conversation map and the history
\* buffer as they were.
C9_CancelIsFullReset ==
    [][KeyEsc =>
          /\ searching' = FALSE
          /\ search_query' = <<>>
          /\ selected_stream' = NoStream
          /\ conversations' = conversations
          /\ chat_history' = chat_history
      ]_vars

\* a cancel dropped a selection: no clear ever emptied a non-empty map, a flow
\* had been selected and shown, and none is selected now
C9_Witness ==
    /\ mpc = "drain"
    /\ ~searching
    /\ clearedAt = 0
    /\ search_query = <<>>
    /\ selected_stream = NoStream
    /\ formatted_hex_view # SelectAStream
    /\ conversations # <<>>

\* C10: when the foreground loop has been left through the quit command, the
\* kill of the capture process has been issued.
C10_QuitKillsCapture == (mpc = "done" /\ exitBy = "quit") => killed

\* the loop was left through quit, and the worker saw the feed close before
\* it had read all of it
C10_Witness ==
    /\ mpc = "done"
    /\ exitBy = "quit"
    /\ killed
    /\ wpc = "exited"
    /\ pos < Len(Stream(scn))

(***************************************************************************)
(* Claims about the end of the feed and the channel                        *)
(***************************************************************************)
\* once the worker has left its loop it stays out and sends nothing more
ExitedIsFinal ==
    wpc = "exited" =>
        /\ wpc' = "exited"
        /\ sent' = sent
        /\ Len(queue') <= Len(queue)

\* the drain that finds the channel empty and disconnected goes on to the
\* render and keeps the conversation map, the history and the selection
DisconnectNotFatal ==
    (DrainEnd /\ wpc = "exited") =>
        /\ mpc' = "draw"
        /\ exitBy' = "none"
        /\ conversations' = conversations
        /\ chat_history' = chat_history
        /\ selected_stream' = selected_stream

\* with the worker gone, the foreground loop still has a step to take, and a
\* key event in Browsing mode still reaches the navigation and clear handlers
StillHandlesCommands ==
    (wpc = "exited" /\ mpc # "done") =>
        /\ ENABLED (NextDrain \/ NextSearching \/ NextBrowsing)
        /\ (mpc = "input" /\ ~searching) => ENABLED KeyDown /\ ENABLED KeyClear

\* C11: when the feed ends (a zero-byte read or a read error) the worker leaves
\* its loop and sends nothing more, and a feed read to its end leads to that
\* exit; the foreground loop takes the empty, disconnected channel as the end
\* of a drain, keeps its state and goes on handling commands.
C11_FeedEndNotFatal ==
    /\ [][ExitedIsFinal /\ DisconnectNotFatal]_vars
    /\ []StillHandlesCommands
    /\ (pos = Len(Stream(scn))) ~> (wpc = "exited")

\* the worker has left its loop after the whole feed, every record it sent was
\* applied, and the foreground loop waits for a key with a flow selected
C11_Witness ==
    /\ wpc = "exited"
    /\ pos = Len(Stream(scn))
    /\ queue = <<>>
    /\ received = sent
    /\ sent # <<>>
    /\ mpc = "input"
    /\ selected_stream # NoStream
    /\ exitBy = "none"

\* while the foreground loop runs, the records sent are those received
\* followed by those still in the channel: none lost, repeated or reordered
ChannelInOrder == mpc # "done" => sent = received \o queue

\* try_recv does not wait: the drain has a step to take whatever the channel holds
DrainNeverBlocks == mpc = "drain" => ENABLED (Recv \/ DrainEnd)

\* receiving a record applies it once: one more count for its flow, and the
\* record at the end of the history
AppliedOnce ==
    Recv =>
        LET update == Head(queue)
        IN  /\ received' = Append(received, update)
            /\ CountOf(conversations', FlowKey(update))
                  = CountOf(conversations, FlowKey(update)) + 1
            /\ \A key \in FlowKeys \ {FlowKey(update)} :
                  CountOf(conversations', key) = CountOf(conversations, key)
            /\ chat_history'[Len(chat_history')] = update

\* the worker's steps leave the foreground loop's state alone
WorkerKeepsOut ==
    NextWorker =>
        UNCHANGED <<conversations, chat_history, list_state, selected_stream,
                    searching, search_query, formatted_hex_view>>

\* C12: under every interleaving of the worker and the foreground loop, each
\* record sent is received and applied to the conversation map and the
\* history exactly once, in the order sent; the drain never waits on an empty
\* channel; the worker never writes the foreground loop's state.
C12_AppliedOnceInOrder ==
    /\ [](ChannelInOrder /\ DrainNeverBlocks)
    /\ [][AppliedOnce /\ WorkerKeepsOut]_vars

\* the worker is in the middle of a scan, with records in the channel, while
\* the foreground loop is in the middle of a drain that applied some already
C12_Witness ==
    /\ wpc = "scan"
    /\ mpc = "drain"
    /\ Len(queue) >= 2
    /\ received # <<>>
    /\ i < ScanBound(Len(buffer))
    /\ sent = received \o queue

(***************************************************************************)
(* C13..C16, C18: what the worker sends and how its cursor moves           *)
(***************************************************************************)
\* the two addresses printed in a record's summary, as text
SummarySource(summary) == Take(summary, Find(summary, Arrow))
SummaryDestination(summary) ==
    LET pair == IpPair(summary)
    IN  Drop(pair, Find(pair, Arrow) + Len(Arrow))

NoiseAddresses == {FmtAddr(AddrZero), FmtAddr(AddrBcast)}

\* C13: no record sent has 0.0.0.0 or 255.255.255.255 as its source or its
\* destination address.
C13_NoNoiseAddressSent ==
    \A k \in 1..Len(sent) :
        /\ SummarySource(sent[k].summary) \notin NoiseAddresses
        /\ SummaryDestination(sent[k].summary) \notin NoiseAddresses

\* the tag printed at the end of a record's summary (empty when there is none)
TagOf(summary) ==
    LET p == Find(summary, TagOpen)
    IN  IF p >= 0 THEN Drop(summary, p) ELSE <<>>

\* the big-endian value at bytes 22..23 of a frame: the destination port of
\* a TCP or UDP frame with a 20-byte IPv4 header
DPort(raw) == raw[23] * 256 + raw[24]

TagHttp == <<32, 91, 72, 84, 84, 80, 93>>
ThreePorts == {<<443, TagHttps>>, <<53, TagDns>>, <<22, TagSsh>>}
FourPorts == ThreePorts \cup {<<80, TagHttp>>}

\* the tag a table gives a frame: empty for a port the table does not list
\* and for a frame too short to hold a port
LookupTag(table, raw) ==
    IF Len(raw) >= 24 /\ \E e \in table : e[1] = DPort(raw)
    THEN (CHOOSE e \in table : e[1] = DPort(raw))[2]
    ELSE <<>>

\* C14 as stated: every record's tag is the lookup of the frame's destination
\* port in {443: HTTPS, 53: DNS, 22: SSH, 80: HTTP}, empty for any other port
\* and for a frame too short to carry a port.
C14_FourPortTable ==
    \A k \in 1..Len(sent) :
        TagOf(sent[k].summary) = LookupTag(FourPorts, sent[k].raw_data)

\* C14 amended: every record's tag is the lookup of the frame's destination
\* port in {443: HTTPS, 53: DNS, 22: SSH}, empty for any other port, 80
\* included, and for a frame shorter than 24 bytes.
C14_ThreePortTable ==
    \A k \in 1..Len(sent) :
        TagOf(sent[k].summary) = LookupTag(ThreePorts, sent[k].raw_data)

\* records of a frame to port 443 (tagged), of a frame to port 80 (no tag)
\* and of a frame without a transport header (no tag) were sent
C14_Witness ==
    /\ scn = "ports"
    /\ \E k \in 1..Len(sent) :
          /\ Len(sent[k].raw_data) >= 24 /\ DPort(sent[k].raw_data) = 443
          /\ TagOf(sent[k].summary) = TagHttps
    /\ \E k \in 1..Len(sent) :
          /\ Len(sent[k].raw_data) >= 24 /\ DPort(sent[k].raw_data) = 80
          /\ TagOf(sent[k].summary) = <<>>
    /\ \E k \in 1..Len(sent) :
          Len(sent[k].raw_data) < 24 /\ TagOf(sent[k].summary) = <<>>

\* offset c of the buffer lies inside a frame that starts before c with a
\* header the parser and the filter accept, and whose declared end is beyond
\* the bytes buffered
InsideIncomplete(buf, c) ==
    \E d \in 0..(c - 1) :
        /\ d < ScanBound(Len(buf))
        /\ buf[d + 1] = 69
        /\ Ipv4HeaderOk(buf, d)
        /\ ~NoiseFilter(HeaderSource(buf, d), HeaderDestination(buf, d))
        /\ d + HeaderTotalLen(buf, d) > Len(buf)
        /\ d + HeaderTotalLen(buf, d) > c

\* C15: no record is sent from bytes inside a frame whose declared length
\* exceeds the bytes buffered: the scan does not go past such a frame until
\* more input has arrived.
C15_NothingFromIncompleteFrame ==
    [][(wpc = "scan" /\ sent' # sent) =>
          ~InsideIncomplete(buffer, NextCandidate(buffer, i))]_vars

\* C16: each frame occurrence of the feed produces at most one record: the
\* frames of the clean feed differ from each other, so no record is sent twice.
C16_FrameSentAtMostOnce ==
    scn = "clean" =>
        \A j, k \in 1..Len(sent) : j < k => sent[j] # sent[k]

\* C18: every iteration of the extraction loop moves the cursor forward, so
\* the scan of one read ends and the worker reads again.
C18_CursorStrictlyIncreases ==
    [][(wpc = "scan" /\ i < ScanBound(Len(buffer))) => i' > i]_vars

(***************************************************************************)
(* C17, C19, C20: what the panes show and where navigation lands           *)
(***************************************************************************)
\* the history records of one flow, in arrival order
RecordsOf(history, key) == SelectSeq(history, LAMBDA p : FlowKey(p) = key)

\* C17: while a flow is selected, the feed pane shows exactly the history
\* records of that flow, in arrival order, whatever the search text, and the
\* inspector's record is chosen among the same records.
C17_FeedIsSelectedFlow ==
    selected_stream # NoStream =>
        /\ FilteredFeed(chat_history, selected_stream, search_query)
              = RecordsOf(chat_history, selected_stream)
        /\ Matching(chat_history, selected_stream)
              = RecordsOf(chat_history, selected_stream)

\* C19: in Browsing mode, with a non-empty list, Up and Down compute a
\* position inside the list, also when the remembered position is stale, and
\* the flow selected afterwards is a row of that list.
C19_NavigationInBounds ==
    [][((KeyUp \/ KeyDown) /\ Streams(conversations, search_query) # <<>>) =>
          /\ exitBy' = exitBy
          /\ Position(Streams(conversations, search_query), selected_stream')
                # NoneIdx]_vars

\* C20: at every render the inspector shows the placeholder when no flow is
\* selected, and the hex dump of the selected flow's most recent history
\* record when a flow is selected and the history holds a record of it.
C20_InspectorFollowsSelection ==
    mpc = "draw" =>
        IF selected_stream = NoStream
        THEN InspectorText(formatted_hex_view) = SelectAStream
        ELSE LET records == RecordsOf(chat_history, selected_stream)
             IN  records # <<>> =>
                    InspectorText(formatted_hex_view)
                        = format_hex(records[Len(records)].raw_data)

====
